---- MODULE Spec2Model ----
(***************************************************************************)
(* Error propagation and HTTP response translation of go-krill-utils:      *)
(* package errors (Factory, ServiceError, Error) and package response      *)
(* (serviceError, Response).                                               *)
(*                                                                         *)
(* A Go string is modelled as a sequence of characters.  A character is a  *)
(* TLA+ string: the JSON structural characters are single characters, a    *)
(* word of a message is one indivisible character.                         *)
(***************************************************************************)
EXTENDS Integers, Sequences, FiniteSets, TLC

QUOTE == "\""
BACKSLASH == "\\"
LBRACE == "{"
RBRACE == "}"
COLON == ":"
COMMA == ","
SPACE == " "
GT == ">"
EscapedGT == "\\u003e"

LitNull == <<"n", "u", "l", "l">>
LitTrue == <<"t", "r", "u", "e">>
LitFalse == <<"f", "a", "l", "s", "e">>

Digits == <<"0", "1", "2", "3", "4", "5", "6", "7", "8", "9">>

DigitSet == {Digits[i] : i \in 1..10}

DigitValue(c) == (CHOOSE i \in 1..10 : Digits[i] = c) - 1

\* strconv / encoding/json integer formatting, in decimal.
RECURSIVE Itoa(_)
Itoa(n) ==
    IF n < 0 THEN <<"-">> \o Itoa(0 - n)
    ELSE IF n < 10 THEN <<Digits[n + 1]>>
    ELSE Itoa(n \div 10) \o <<Digits[(n % 10) + 1]>>

\* strings.Contains(s, sub)
Contains(s, sub) ==
    \E i \in 0..(Len(s) - Len(sub)) :
        \A j \in 1..Len(sub) : s[i + j] = sub[j]

(***************************************************************************)
(* JSON values, as encoding/json holds them once decoded into interface{}: *)
(* every value carries the same fields so that two values always compare.  *)
(***************************************************************************)
JNull == [t |-> "null", n |-> 0, s |-> <<>>, m |-> <<>>]
JBool(b) == [t |-> IF b THEN "true" ELSE "false", n |-> 0, s |-> <<>>, m |-> <<>>]
JNum(n) == [t |-> "num", n |-> n, s |-> <<>>, m |-> <<>>]
JStr(s) == [t |-> "str", n |-> 0, s |-> s, m |-> <<>>]
\* m: the members in order, each [k |-> key text, v |-> value]
JObj(m) == [t |-> "obj", n |-> 0, s |-> <<>>, m |-> m]

\* encoding/json string encoding: quotes and backslashes are escaped, and so
\* are the HTML characters (json.Marshal escapes <, > and & by default).
EscapeChar(c) ==
    IF c = QUOTE THEN <<BACKSLASH, QUOTE>>
    ELSE IF c = BACKSLASH THEN <<BACKSLASH, BACKSLASH>>
    ELSE IF c = GT THEN <<EscapedGT>>
    ELSE <<c>>

RECURSIVE EscapeString(_)
EscapeString(s) ==
    IF s = <<>> THEN <<>> ELSE EscapeChar(Head(s)) \o EscapeString(Tail(s))

MarshalString(s) == <<QUOTE>> \o EscapeString(s) \o <<QUOTE>>

\* json.Marshal of a value: objects are written in member order, without
\* any white space.
RECURSIVE MarshalValue(_)
RECURSIVE MarshalMembers(_)
MarshalMembers(m) ==
    IF m = <<>> THEN <<>>
    ELSE MarshalString(Head(m).k) \o <<COLON>> \o MarshalValue(Head(m).v)
         \o (IF Len(m) > 1 THEN <<COMMA>> ELSE <<>>)
         \o MarshalMembers(Tail(m))

MarshalValue(v) ==
    CASE v.t = "null" -> LitNull
      [] v.t = "true" -> LitTrue
      [] v.t = "false" -> LitFalse
      [] v.t = "num" -> Itoa(v.n)
      [] v.t = "str" -> MarshalString(v.s)
      [] v.t = "obj" -> <<LBRACE>> \o MarshalMembers(v.m) \o <<RBRACE>>

(***************************************************************************)
(* Go error values: the dynamic type, the text Error() returns and, for a  *)
(* *json.UnmarshalTypeError, the struct field it names; m is used by the   *)
(* errors that marshal to a JSON object (see MarshalerError).              *)
(***************************************************************************)
GoError(type, msg, field) == [type |-> type, msg |-> msg, field |-> field, m |-> <<>>]

NoError == GoError("nil", <<>>, <<>>)

SyntaxError(msg) == GoError("*json.SyntaxError", msg, <<>>)

UnexpectedEnd == SyntaxError(<<"unexpected end of JSON input">>)

\* The first character of a text element that stands for several characters.
Initial(c) ==
    CASE c = "connection refused" -> "c"
      [] c = "unexpected end of JSON input" -> "u"
      [] c = "json: cannot unmarshal " -> "j"
      [] c = "rpc error: code = Unavailable desc = " -> "r"
      [] OTHER -> c

\* The scanner reads one character at a time and quotes the one it rejects.
InvalidCharacter(c, context) == SyntaxError(<<"invalid character '", Initial(c), context>>)

UnmarshalTypeError(value, field) ==
    GoError("*json.UnmarshalTypeError",
            <<"json: cannot unmarshal ", value, " into Go struct field ">> \o field,
            field)

(***************************************************************************)
(* The scanner of encoding/json (checkValid and the decoder's value        *)
(* construction).  A result is [e |-> error, v |-> value, p |-> position   *)
(* of the first character after the value].                                *)
(***************************************************************************)
Scanned(v, p) == [e |-> NoError, v |-> v, p |-> p]

ScanFailed(e) == [e |-> e, v |-> JNull, p |-> 0]

RECURSIVE SkipSpace(_, _)
SkipSpace(data, p) ==
    IF p <= Len(data) /\ data[p] = SPACE THEN SkipSpace(data, p + 1) ELSE p

\* p is the position after the opening quote; acc is the text read so far.
RECURSIVE ScanString(_, _, _)
ScanString(data, p, acc) ==
    IF p > Len(data) THEN ScanFailed(UnexpectedEnd)
    ELSE IF data[p] = QUOTE THEN Scanned(JStr(acc), p + 1)
    ELSE IF data[p] = BACKSLASH THEN
        IF p + 1 > Len(data) THEN ScanFailed(UnexpectedEnd)
        ELSE IF data[p + 1] \in {QUOTE, BACKSLASH}
             THEN ScanString(data, p + 2, Append(acc, data[p + 1]))
             ELSE ScanFailed(InvalidCharacter(data[p + 1], "' in string escape code"))
    ELSE IF data[p] = EscapedGT THEN ScanString(data, p + 1, Append(acc, GT))
    ELSE ScanString(data, p + 1, Append(acc, data[p]))

\* p is the position of the first digit not yet read; n is the value so far.
RECURSIVE ScanDigits(_, _, _)
ScanDigits(data, p, n) ==
    IF p <= Len(data) /\ data[p] \in DigitSet
    THEN ScanDigits(data, p + 1, 10 * n + DigitValue(data[p]))
    ELSE [n |-> n, p |-> p]

\* p is the position of the sign or of the first digit.
ScanNumber(data, p) ==
    LET neg == data[p] = "-"
        q == IF neg THEN p + 1 ELSE p
    IN  IF q > Len(data) THEN ScanFailed(UnexpectedEnd)
        ELSE IF data[q] \notin DigitSet
             THEN ScanFailed(InvalidCharacter(data[q], "' in numeric literal"))
        ELSE IF data[q] = "0" THEN Scanned(JNum(0), q + 1)
        ELSE LET d == ScanDigits(data, q, 0)
             IN  Scanned(JNum(IF neg THEN 0 - d.n ELSE d.n), d.p)

\* The literal lit is expected at position p.
ScanLiteral(data, p, lit, v) ==
    LET bad == {i \in 1..Len(lit) : p + i - 1 > Len(data) \/ data[p + i - 1] # lit[i]}
        first == CHOOSE i \in bad : \A j \in bad : i <= j
    IN  IF bad = {} THEN Scanned(v, p + Len(lit))
        ELSE IF p + first - 1 > Len(data) THEN ScanFailed(UnexpectedEnd)
        ELSE ScanFailed(InvalidCharacter(data[p + first - 1], "' in literal"))

\* The only element of a singleton set.  A step of the scanner that reads an
\* intermediate result more than once binds it as the element of a singleton,
\* so that the result is computed once.
The(S) == CHOOSE x \in S : TRUE

RECURSIVE ScanValue(_, _)
RECURSIVE ScanObject(_, _, _)
\* After the member key: val at c + 1, the position after the colon.
ScanMemberValue(data, c, key, acc) ==
    The({ IF val.e # NoError THEN val
          ELSE The({ IF r > Len(data) THEN ScanFailed(UnexpectedEnd)
                     ELSE IF data[r] = COMMA
                          THEN ScanObject(data, r + 1, Append(acc, [k |-> key, v |-> val.v]))
                     ELSE IF data[r] = RBRACE
                          THEN Scanned(JObj(Append(acc, [k |-> key, v |-> val.v])), r + 1)
                     ELSE ScanFailed(InvalidCharacter(data[r], "' after object key:value pair"))
                     : r \in {SkipSpace(data, val.p)} })
          : val \in {ScanValue(data, c + 1)} })

\* After the key string of a member.
ScanMember(data, key, acc) ==
    IF key.e # NoError THEN key
    ELSE The({ IF c > Len(data) THEN ScanFailed(UnexpectedEnd)
               ELSE IF data[c] # COLON
                    THEN ScanFailed(InvalidCharacter(data[c], "' after object key"))
               ELSE ScanMemberValue(data, c, key.v.s, acc)
               : c \in {SkipSpace(data, key.p)} })

\* p is the position after "{" or after a ","; acc holds the members read.
ScanObject(data, p, acc) ==
    The({ IF q > Len(data) THEN ScanFailed(UnexpectedEnd)
          ELSE IF data[q] = RBRACE /\ acc = <<>> THEN Scanned(JObj(acc), q + 1)
          ELSE IF data[q] # QUOTE
               THEN ScanFailed(InvalidCharacter(data[q],
                                   "' looking for beginning of object key string"))
          ELSE The({ ScanMember(data, key, acc) : key \in {ScanString(data, q + 1, <<>>)} })
          : q \in {SkipSpace(data, p)} })

ScanValue(data, p) ==
    The({ IF q > Len(data) THEN ScanFailed(UnexpectedEnd)
          ELSE IF data[q] = LBRACE THEN ScanObject(data, q + 1, <<>>)
          ELSE IF data[q] = QUOTE THEN ScanString(data, q + 1, <<>>)
          ELSE IF data[q] = "-" \/ data[q] \in DigitSet THEN ScanNumber(data, q)
          ELSE IF data[q] = "n" THEN ScanLiteral(data, q, LitNull, JNull)
          ELSE IF data[q] = "t" THEN ScanLiteral(data, q, LitTrue, JBool(TRUE))
          ELSE IF data[q] = "f" THEN ScanLiteral(data, q, LitFalse, JBool(FALSE))
          ELSE ScanFailed(InvalidCharacter(data[q], "' looking for beginning of value"))
          : q \in {SkipSpace(data, p)} })

\* The whole input must be one value (checkValid).
ScanDocument(data) ==
    The({ IF val.e # NoError THEN val
          ELSE The({ IF r <= Len(data)
                     THEN ScanFailed(InvalidCharacter(data[r], "' after top-level value"))
                     ELSE val
                     : r \in {SkipSpace(data, val.p)} })
          : val \in {ScanValue(data, 1)} })

(***************************************************************************)
(* A JSON object decoded into an interface{} is a map[string]interface{}:  *)
(* a repeated key keeps its last value, and json.Marshal writes the keys   *)
(* sorted.  Collation lists, in byte order, the characters the keys of the *)
(* model are made of.                                                      *)
(***************************************************************************)
Collation == <<SPACE, "0", "1", "2", "@", "a", "b", "field1", "field2", "query", "z">>

CharRank(c) ==
    IF \E i \in 1..Len(Collation) : Collation[i] = c
    THEN CHOOSE i \in 1..Len(Collation) : Collation[i] = c
    ELSE 0

RECURSIVE TextLess(_, _)
TextLess(a, b) ==
    IF a = <<>> THEN b # <<>>
    ELSE IF b = <<>> THEN FALSE
    ELSE IF Head(a) = Head(b) THEN TextLess(Tail(a), Tail(b))
    ELSE CharRank(Head(a)) < CharRank(Head(b))

RECURSIVE InsertMember(_, _)
InsertMember(sorted, member) ==
    IF sorted = <<>> THEN <<member>>
    ELSE IF Head(sorted).k = member.k THEN <<member>> \o Tail(sorted)
    ELSE IF TextLess(member.k, Head(sorted).k) THEN <<member>> \o sorted
    ELSE <<Head(sorted)>> \o InsertMember(Tail(sorted), member)

RECURSIVE ToInterface(_)
RECURSIVE MapMembers(_, _)
MapMembers(members, acc) ==
    IF members = <<>> THEN acc
    ELSE MapMembers(Tail(members),
                    InsertMember(acc, [k |-> Head(members).k,
                                       v |-> ToInterface(Head(members).v)]))

ToInterface(v) == IF v.t = "obj" THEN JObj(MapMembers(v.m, <<>>)) ELSE v

(***************************************************************************)
(* package response, service.go: the record an error string decodes to.    *)
(***************************************************************************)
\* type serviceError; a nil SublevelError (interface{}) is JNull.
serviceError(code, serviceName, message, destination, kind, details) ==
    [Code |-> code, ServiceName |-> serviceName, Message |-> message,
     Destination |-> destination, Kind |-> kind, SublevelError |-> details]

ZeroServiceError == serviceError(0, <<>>, <<>>, <<>>, <<>>, JNull)

\* encoding/json matches a key to a struct field by its exact name or, failing
\* that, ignoring case (strings.EqualFold).
FoldChar(c) ==
    CASE c = "Code" -> "code"
      [] c = "Kind" -> "kind"
      [] c = "KIND" -> "kind"
      [] c = "Message" -> "message"
      [] c = "Details" -> "details"
      [] OTHER -> c

FoldKey(k) == [i \in 1..Len(k) |-> FoldChar(k[i])]

JSONTypeName(v) ==
    CASE v.t = "num" -> "number"
      [] v.t = "str" -> "string"
      [] v.t = "obj" -> "object"
      [] v.t \in {"true", "false"} -> "bool"
      [] OTHER -> "null"

\* One member of the object stored into the struct: [s |-> the struct,
\* e |-> the type error of this member, or NoError].
DecodeMember(s, member) ==
    LET key == FoldKey(member.k)
        v == member.v
        stringField(name) ==
            IF v.t = "str" THEN [s |-> [s EXCEPT ![name] = v.s], e |-> NoError]
            ELSE IF v.t = "null" THEN [s |-> s, e |-> NoError]
            ELSE [s |-> s, e |-> UnmarshalTypeError(JSONTypeName(v), key)]
    IN  CASE key = <<"code">> ->
                \* every number of the model fits an int32
                IF v.t = "num"
                THEN [s |-> [s EXCEPT !.Code = v.n], e |-> NoError]
                ELSE IF v.t = "null" THEN [s |-> s, e |-> NoError]
                ELSE [s |-> s, e |-> UnmarshalTypeError(JSONTypeName(v), key)]
          [] key = <<"service_name">> -> stringField("ServiceName")
          [] key = <<"message">> -> stringField("Message")
          [] key = <<"destination">> -> stringField("Destination")
          [] key = <<"kind">> -> stringField("Kind")
          [] key = <<"details">> ->
                [s |-> [s EXCEPT !.SublevelError = ToInterface(v)], e |-> NoError]
          [] OTHER -> [s |-> s, e |-> NoError]

\* The members are stored in order; the first type error is kept and decoding
\* goes on (decodeState.saveError).
RECURSIVE DecodeMembers(_, _, _)
DecodeMembers(members, s, e) ==
    IF members = <<>> THEN [s |-> s, e |-> e]
    ELSE The({ DecodeMembers(Tail(members), d.s, IF e = NoError THEN d.e ELSE e)
               : d \in {DecodeMember(s, Head(members))} })

\* json.Unmarshal([]byte(s), &e) with e a zero serviceError.
Unmarshal(data) ==
    The({ IF doc.e # NoError THEN [s |-> ZeroServiceError, e |-> doc.e]
          ELSE IF doc.v.t = "null" THEN [s |-> ZeroServiceError, e |-> NoError]
          ELSE IF doc.v.t # "obj"
               THEN [s |-> ZeroServiceError,
                     e |-> UnmarshalTypeError(JSONTypeName(doc.v), <<>>)]
          ELSE DecodeMembers(doc.v.m, ZeroServiceError, NoError)
          : doc \in {ScanDocument(data)} })

\* serviceErrorFromString: [s |-> *serviceError, e |-> error]; on an error
\* the record is nil, which the callers never read.
serviceErrorFromString(str) ==
    The({ IF r.e # NoError THEN [s |-> ZeroServiceError, e |-> r.e] ELSE r
          : r \in {Unmarshal(str)} })

KindValidation == <<"ValidationError">>
KindInternal == <<"InternalError">>
KindNotFound == <<"NotFoundError">>
KindPrecondition == <<"ConditionError">>
KindPermission == <<"PermissionError">>

\* knownServiceErrors without its last entry
knownServiceErrors_short ==
    {<<"ValidationError">>, <<"InternalError">>, <<"NotFoundError">>, <<"ConditionError">>}

knownServiceErrors ==
    {<<"ValidationError">>, <<"InternalError">>, <<"NotFoundError">>,
     <<"ConditionError">>, <<"PermissionError">>}

IsKnownError(s) == s.Kind \in knownServiceErrors

StatusOK == 200
StatusBadRequest == 400
StatusUnauthorized == 401
StatusNotFound == 404
StatusPreconditionFailed == 412
StatusInternalServerError == 500

\* ResponseCode without the case of PermissionError
ResponseCode_nocase(s) ==
    CASE s.Kind = <<"ValidationError">> -> StatusBadRequest
      [] s.Kind = <<"NotFoundError">> -> StatusNotFound
      [] s.Kind = <<"ConditionError">> -> StatusPreconditionFailed
      [] OTHER -> StatusInternalServerError

ResponseCode(s) ==
    CASE s.Kind = <<"ValidationError">> -> StatusBadRequest
      [] s.Kind = <<"NotFoundError">> -> StatusNotFound
      [] s.Kind = <<"ConditionError">> -> StatusPreconditionFailed
      [] s.Kind = <<"PermissionError">> -> StatusUnauthorized
      [] OTHER -> StatusInternalServerError

(***************************************************************************)
(* package errors: Error, ServiceError and Factory.                        *)
(***************************************************************************)
CodeInternal == 1
CodeNotFound == 2
CodeInvalidArgument == 3
CodePreconditionFailed == 4
CodeNoPermission == 5

\* An error built by errors.New: a struct without exported fields.
ErrorString(msg) == GoError("*errors.errorString", msg, <<>>)

\* An error that implements json.Marshaler and marshals to an object of
\* strings (a validator's failure collection, field -> message).  The
\* members are kept in m, sorted by key as a Go map is marshalled.
MarshalerError(msg, members) ==
    [type |-> "json.Marshaler", msg |-> msg, field |-> <<>>, m |-> members]

\* json.Marshal of a non-nil error held in an interface field.
MarshalError(err) ==
    IF err.type = "json.Marshaler"
    THEN JObj([i \in 1..Len(err.m) |-> [k |-> err.m[i].k, v |-> JStr(err.m[i].v)]])
    ELSE JObj(<<>>)

\* type Error
Error(code, serviceName, message, destination, kind, sublevel, hide) ==
    [Code |-> code, ServiceName |-> serviceName, Message |-> message,
     Destination |-> destination, Kind |-> kind, SublevelError |-> sublevel,
     hideDetails |-> hide]

\* The members json.Marshal writes for an Error, by its struct tags: code and
\* kind always, the others only when not empty (omitempty).
ErrorMembers(out) ==
    <<[k |-> <<"code">>, v |-> JNum(out.Code)]>>
    \o (IF out.ServiceName # <<>>
        THEN <<[k |-> <<"service_name">>, v |-> JStr(out.ServiceName)]>> ELSE <<>>)
    \o (IF out.Message # <<>>
        THEN <<[k |-> <<"message">>, v |-> JStr(out.Message)]>> ELSE <<>>)
    \o (IF out.Destination # <<>>
        THEN <<[k |-> <<"destination">>, v |-> JStr(out.Destination)]>> ELSE <<>>)
    \o <<[k |-> <<"kind">>, v |-> JStr(out.Kind)]>>
    \o (IF out.SublevelError # NoError
        THEN <<[k |-> <<"details">>, v |-> MarshalError(out.SublevelError)]>> ELSE <<>>)

\* func (e *Error) String() string, which Error() returns too.
String(e) ==
    LET out == Error(e.Code,
                     IF ~e.hideDetails THEN e.ServiceName ELSE <<>>,
                     e.Message,
                     e.Destination,
                     e.Kind,
                     IF ~e.hideDetails THEN e.SublevelError ELSE NoError,
                     FALSE)
    IN  MarshalValue(JObj(ErrorMembers(out)))

\* type ServiceError: the handle a constructor returns.  logger is the
\* method value the constructor bound (Warn, Error or Info of f.logger).
ServiceError(err, attributes, logger) ==
    [err |-> err, attributes |-> attributes, logger |-> logger]

newServiceError(options) ==
    ServiceError(Error(options.Code, options.ServiceName, options.Message,
                       options.Destination, options.Kind, options.Error,
                       options.HideDetails),
                 <<>>, options.Logger)

serviceErrorOptions(f, code, kind, message, logger, err) ==
    [HideDetails |-> f.hideMessageDetails, Code |-> code, Kind |-> kind,
     ServiceName |-> f.serviceName, Message |-> message, Destination |-> <<>>,
     Logger |-> logger, Error |-> err]

\* The five constructors of Factory f: the handle each returns.
InvalidArgumentCall(f, err) ==
    newServiceError(serviceErrorOptions(f, CodeInvalidArgument, KindValidation,
                        <<"request validation failed">>, "Warn", err))

FailedPreconditionCall(f, message) ==
    newServiceError(serviceErrorOptions(f, CodePreconditionFailed, KindPrecondition,
                        <<"failed precondition">>, "Warn", ErrorString(message)))

\* NotFound with the code of Internal
NotFoundCall_internalcode(f) ==
    newServiceError(serviceErrorOptions(f, CodeInternal, KindNotFound,
                        <<"not found">>, "Warn", NoError))

NotFoundCall(f) ==
    newServiceError(serviceErrorOptions(f, CodeNotFound, KindNotFound,
                        <<"not found">>, "Warn", NoError))

InternalCall(f, err) ==
    newServiceError(serviceErrorOptions(f, CodeInternal, KindInternal,
                        <<"got an internal error">>, "Error", err))

\* fmt.Sprintf("no permission to access %s", f.serviceName)
PermissionDeniedCall(f) ==
    newServiceError(serviceErrorOptions(f, CodeNoPermission, KindPermission,
                        <<"no permission to access", SPACE>> \o f.serviceName, "Info", NoError))

(***************************************************************************)
(* package strings                                                         *)
(***************************************************************************)
\* sep occurs in s at position p
MatchAt(s, p, sep) ==
    /\ p + Len(sep) - 1 <= Len(s)
    /\ \A j \in 1..Len(sep) : s[p + j - 1] = sep[j]

\* strings.Split(s, sep) for a non-empty sep, from position p on: cur is the
\* part being read and acc the parts read.
RECURSIVE SplitFrom(_, _, _, _, _)
SplitFrom(s, sep, p, cur, acc) ==
    IF p > Len(s) THEN Append(acc, cur)
    ELSE IF MatchAt(s, p, sep) THEN SplitFrom(s, sep, p + Len(sep), <<>>, Append(acc, cur))
    ELSE SplitFrom(s, sep, p + 1, Append(cur, s[p]), acc)

Split(s, sep) == SplitFrom(s, sep, 1, <<>>, <<>>)

\* strings.ReplaceAll(s, old, new) for a non-empty old
RECURSIVE ReplaceFrom(_, _, _, _)
ReplaceFrom(s, old, new, p) ==
    IF p > Len(s) THEN <<>>
    ELSE IF MatchAt(s, p, old) THEN new \o ReplaceFrom(s, old, new, p + Len(old))
    ELSE <<s[p]>> \o ReplaceFrom(s, old, new, p + 1)

ReplaceAll(s, old, new) == ReplaceFrom(s, old, new, 1)

RECURSIVE TrimLeft(_)
TrimLeft(s) == IF s # <<>> /\ Head(s) = SPACE THEN TrimLeft(Tail(s)) ELSE s

RECURSIVE TrimRight(_)
TrimRight(s) ==
    IF s # <<>> /\ s[Len(s)] = SPACE THEN TrimRight(SubSeq(s, 1, Len(s) - 1)) ELSE s

TrimSpace(s) == TrimRight(TrimLeft(s))

TrimSuffix(s, suffix) ==
    IF Len(s) >= Len(suffix) /\ MatchAt(s, Len(s) - Len(suffix) + 1, suffix)
    THEN SubSeq(s, 1, Len(s) - Len(suffix))
    ELSE s

HasPrefix(s, prefix) == MatchAt(s, 1, prefix)

TrimPrefix(s, prefix) ==
    IF HasPrefix(s, prefix) THEN SubSeq(s, Len(prefix) + 1, Len(s)) ELSE s

(***************************************************************************)
(* package response, error.go: the body of an error response.              *)
(***************************************************************************)
invalidJsonBodyMsg == <<"invalid json body">>
invalidValueFieldJsonMsg == <<"invalid value for json field">>
internalServerErrorMsg == <<"internal service error">>

\* type responseError, which newResponseError copies from its options
responseError(code, source, message, details, destination, fields) ==
    [Code |-> code, Source |-> source, Message |-> message, Details |-> details,
     Destination |-> destination, Fields |-> fields]

newResponseError(options) ==
    responseError(options.Code, options.Source, options.Message, options.Details,
                  options.Destination, options.Fields)

\* type Field
Field(field, message, location) ==
    [Field |-> field, Message |-> message, Location |-> location]

\* getFieldNameAndLocation without the split at "@"
getFieldNameAndLocation_nosplit(data) == <<data, <<"body">>>>

getFieldNameAndLocation(data) ==
    LET res == Split(TrimSpace(data), <<"@">>)
    IN  IF Len(res) = 1 THEN <<data, <<"body">>>>
        ELSE <<TrimSpace(res[1]), TrimSpace(res[2])>>

formatMessage(s, v) == ReplaceAll(v, s \o <<COLON>>, <<>>)

\* The fields one segment re of the input err contributes (none or one).
SegmentFields(re0, err) ==
    LET re == ReplaceAll(re0, <<QUOTE>>, <<>>)
        msg == Split(TrimSpace(re), <<COLON>>)
        fl == getFieldNameAndLocation(msg[1])
    IN  IF Len(msg) = 2
        THEN <<Field(fl[1], TrimSuffix(TrimSpace(msg[2]), <<".">>), fl[2])>>
        ELSE IF Len(msg) > 2
        THEN <<Field(fl[1],
                     TrimSuffix(TrimSpace(formatMessage(msg[1], err)), <<".">>),
                     fl[2])>>
        ELSE <<>>

RECURSIVE SegmentsFields(_, _)
SegmentsFields(res, err) ==
    IF res = <<>> THEN <<>>
    ELSE SegmentFields(Head(res), err) \o SegmentsFields(Tail(res), err)

newValidationErrorFields(err) ==
    SegmentsFields(Split(err, <<QUOTE, COMMA, QUOTE>>), err)

\* case *json.SyntaxError / *json.UnmarshalTypeError of jsonError:
\* [res |-> *responseError, ok |-> bool]
jsonError(err) ==
    IF err.type = "*json.SyntaxError"
    THEN [res |-> responseError(0, <<>>, invalidJsonBodyMsg, <<>>, <<>>, <<>>), ok |-> TRUE]
    ELSE IF err.type = "*json.UnmarshalTypeError"
    THEN [res |-> responseError(0, <<>>, invalidValueFieldJsonMsg,
                      <<"unexpected value for field '">> \o err.field \o <<"'">>,
                      <<>>, <<>>),
          ok |-> TRUE]
    ELSE [res |-> responseError(0, <<>>, <<>>, <<>>, <<>>, <<>>), ok |-> FALSE]

\* ToResponseError that parses the detail of a record of any kind
ToResponseError_anykind(s) ==
    LET b == MarshalValue(s.SublevelError)
        parse == s.SublevelError # JNull
        fields == IF parse /\ Len(b) >= 2
                  THEN newValidationErrorFields(SubSeq(b, 2, Len(b) - 1))
                  ELSE <<>>
    IN  [panic |-> parse /\ Len(b) < 2,
         res |-> newResponseError([Code |-> s.Code, Source |-> s.ServiceName,
                                   Message |-> s.Message, Details |-> <<>>,
                                   Destination |-> s.Destination, Fields |-> fields])]

\* ToResponseError: [panic |-> the slice expression failed, res |-> the body].
\* string(b)[1 : len(b)-1] panics when b is a single byte (a one-digit
\* number): the low bound 1 exceeds the high bound 0.
ToResponseError(s) ==
    LET b == MarshalValue(s.SublevelError)
        parse == s.SublevelError # JNull /\ s.Kind = <<"ValidationError">>
        fields == IF parse /\ Len(b) >= 2
                  THEN newValidationErrorFields(SubSeq(b, 2, Len(b) - 1))
                  ELSE <<>>
    IN  [panic |-> parse /\ Len(b) < 2,
         res |-> newResponseError([Code |-> s.Code, Source |-> s.ServiceName,
                                   Message |-> s.Message, Details |-> <<>>,
                                   Destination |-> s.Destination, Fields |-> fields])]

(***************************************************************************)
(* package response, response.go: Response and its terminal calls.  Two    *)
(* versions of the file are in the repository: pkg "response" is           *)
(* src/response/response.go and pkg "part_003" is src/unnamed/part_003.    *)
(***************************************************************************)
customHeaderPrefix == <<"handler-attribute-">>

\* What a terminal call hands to forwardOutput: a *responseError, a payload
\* value (val) or, in part_003, a Go string (val is its JStr).
ZeroResponseError == responseError(0, <<>>, <<>>, <<>>, <<>>, <<>>)
ErrorData(re) == [k |-> "error", re |-> re, val |-> JNull]
ValueData(v) == [k |-> "value", re |-> ZeroResponseError, val |-> v]
StringData(b) == [k |-> "string", re |-> ZeroResponseError, val |-> JStr(b)]

\* A value json.Marshal rejects (a channel, a function).
Unsupported == [t |-> "chan", n |-> 0, s |-> <<>>, m |-> <<>>]

\* json.Marshal(data): the error it returns
MarshalFailure(data) ==
    IF data.k = "value" /\ data.val.t = "chan"
    THEN GoError("*json.UnsupportedTypeError", <<"json: unsupported type: ", "chan int">>, <<>>)
    ELSE NoError

\* status.FromError(err): a nil error is the OK status with no message, an
\* error made by the status package gives its message, any other error is
\* not a status.
statusFromError(err) ==
    IF err = NoError THEN [ok |-> TRUE, Message |-> <<>>]
    ELSE IF err.type = "*status.Error" THEN [ok |-> TRUE, Message |-> err.field]
    ELSE [ok |-> FALSE, Message |-> err.msg]

\* The outcome of a call: the responses written, the error returned, whether
\* the call panicked, and how many times ForwardError was entered.
Outcome(writes, ret, panic, calls) ==
    [writes |-> writes, ret |-> ret, panic |-> panic, calls |-> calls]

Entered(out) == [out EXCEPT !.calls = @ + 1]

\* A response as the runtime receives it.  enc tells how body is put on the
\* wire: "json" is json.Marshal(body), "text" is the Go string itself, and
\* "json-base64" is echo's JSON of the marshalled bytes (a []byte is encoded
\* as a base64 string).
Written(status, contentType, headers, enc, body) ==
    [status |-> status, contentType |-> contentType, headers |-> headers,
     enc |-> enc, body |-> body]

\* setFasthttpCustomHeaders without the test of the prefix
CustomHeaders_all(uv) ==
    [i \in 1..Len(uv) |-> [name |-> TrimPrefix(uv[i].key, customHeaderPrefix),
                           value |-> uv[i].value]]

\* setFasthttpCustomHeaders: the user values whose key has the prefix, in
\* order; value.(string) panics on a value that is no string.
RECURSIVE CustomHeaders(_)
CustomHeaders(uv) ==
    IF uv = <<>> THEN <<>>
    ELSE (IF HasPrefix(Head(uv).key, customHeaderPrefix)
          THEN <<[name |-> TrimPrefix(Head(uv).key, customHeaderPrefix),
                  value |-> Head(uv).value]>>
          ELSE <<>>) \o CustomHeaders(Tail(uv))

CustomHeadersPanic(uv) ==
    \E i \in 1..Len(uv) : HasPrefix(uv[i].key, customHeaderPrefix) /\ ~uv[i].isString

\* FasthttpOutput without the look-up of handler-response-code
FasthttpOutput_nolookup(c, statusCode, enc, data) ==
    IF CustomHeadersPanic(c.userValues)
    THEN [writes |-> <<>>, ret |-> NoError, panic |-> TRUE, calls |-> 0]
    ELSE [writes |-> <<[status |-> statusCode, contentType |-> c.r.contentType,
                        headers |-> CustomHeaders(c.userValues), enc |-> enc,
                        body |-> data]>>,
          ret |-> NoError, panic |-> FALSE, calls |-> 0]

\* The part of forwardOutput after json.Marshal succeeded, on fasthttp.
FasthttpOutput(c, statusCode, enc, data) ==
    IF CustomHeadersPanic(c.userValues) THEN Outcome(<<>>, NoError, TRUE, 0)
    ELSE Outcome(<<Written(IF c.responseCode # <<>> THEN c.responseCode[1] ELSE statusCode,
                           c.r.contentType, CustomHeaders(c.userValues), enc, data)>>,
                 NoError, FALSE, 0)

\* EchoOutput without the test of customCode
EchoOutput_nocustom(c, statusCode, enc, data) ==
    [writes |-> <<[status |-> statusCode, contentType |-> c.r.contentType,
                   headers |-> <<>>, enc |-> enc, body |-> data]>>,
     ret |-> NoError, panic |-> FALSE, calls |-> 0]

\* The same on echo.
EchoOutput(c, statusCode, enc, data) ==
    Outcome(<<Written(IF c.r.customCode # 0 THEN c.r.customCode ELSE statusCode,
                      c.r.contentType, <<>>, enc, data)>>,
            NoError, FALSE, 0)

RECURSIVE ForwardErrorCall(_, _)
RECURSIVE forwardOutput(_, _, _)

\* forwardOutput of src/response/response.go returning the error of
\* json.Marshal instead of handing it to ForwardError
forwardOutput_response_nofallback(c, statusCode, data) ==
    IF MarshalFailure(data) # NoError THEN Outcome(<<>>, MarshalFailure(data), FALSE, 0)
    ELSE IF c.r.runtime = "fasthttp" THEN FasthttpOutput(c, statusCode, "json", data)
    ELSE EchoOutput(c, statusCode, "json-base64", data)

\* src/response/response.go: json.Marshal comes first, whatever the runtime.
forwardOutput_response(c, statusCode, data) ==
    IF MarshalFailure(data) # NoError THEN ForwardErrorCall(c, MarshalFailure(data))
    ELSE IF c.r.runtime = "fasthttp" THEN FasthttpOutput(c, statusCode, "json", data)
    ELSE EchoOutput(c, statusCode, "json-base64", data)

\* src/unnamed/part_003: echo sends a Go string as it is, and marshals
\* anything else itself.
forwardOutput_part_003(c, statusCode, data) ==
    IF c.r.runtime = "fasthttp"
    THEN IF MarshalFailure(data) # NoError THEN ForwardErrorCall(c, MarshalFailure(data))
         ELSE FasthttpOutput(c, statusCode, "json", data)
    ELSE IF data.k = "string" THEN EchoOutput(c, statusCode, "text", data)
    ELSE IF MarshalFailure(data) # NoError THEN ForwardErrorCall(c, MarshalFailure(data))
    ELSE EchoOutput(c, statusCode, "json", data)

forwardOutput(c, statusCode, data) ==
    IF c.r.pkg = "response" THEN forwardOutput_response(c, statusCode, data)
    ELSE forwardOutput_part_003(c, statusCode, data)

InternalError(source, details) ==
    ErrorData(newResponseError([Code |-> 0, Source |-> source,
                                Message |-> internalServerErrorMsg, Details |-> details,
                                Destination |-> <<>>, Fields |-> <<>>]))

\* ForwardError(err).  The parameter err is assigned the error of
\* serviceErrorFromString (ferror, err := ...), so every later use of err
\* reads that error, named decodeErr here, and not the argument.
ForwardErrorCall(c, err) ==
    The({ LET ferror == decoded.s
              decodeErr == decoded.e
              body == ToResponseError(ferror)
              sts == statusFromError(decodeErr)
              json == jsonError(decodeErr)
          IN  Entered(
              IF decodeErr # NoError
              THEN forwardOutput(c, StatusInternalServerError,
                                 InternalError(<<>>, decodeErr.msg))
              ELSE IF IsKnownError(ferror)
              THEN IF body.panic THEN Outcome(<<>>, NoError, TRUE, 0)
                   ELSE forwardOutput(c, ResponseCode(ferror), ErrorData(body.res))
              ELSE IF sts.ok
              THEN forwardOutput(c, StatusInternalServerError,
                                 InternalError(<<>>, sts.Message))
              ELSE IF json.ok
              THEN forwardOutput(c, StatusBadRequest, ErrorData(json.res))
              ELSE forwardOutput(c, StatusInternalServerError,
                                 InternalError(c.r.serviceName, decodeErr.msg)))
          : decoded \in {serviceErrorFromString(err.msg)} })

\* ForwardAuthenticationError(err)
ForwardAuthenticationErrorCall(c, err) ==
    The({ LET ferror == decoded.s
              decodeErr == decoded.e
              body == ToResponseError(ferror)
          IN  IF decodeErr # NoError
              THEN forwardOutput(c, StatusInternalServerError,
                                 InternalError(<<>>, decodeErr.msg))
              ELSE IF IsKnownError(ferror)
              THEN IF body.panic THEN Outcome(<<>>, NoError, TRUE, 0)
                   ELSE forwardOutput(c, ResponseCode(ferror), ErrorData(body.res))
              ELSE Outcome(<<>>, NoError, FALSE, 0)
          : decoded \in {serviceErrorFromString(err.msg)} })

\* The error value Submit returns is the *Error itself: Error() is String().
\* m holds the record the value points to.
ErrorValue(e) == [type |-> "*errors.Error", msg |-> String(e), field |-> <<>>, m |-> <<e>>]

\* A payload of ForwardSuccess: its value, what HttpResponse() returns when
\* the payload has that method (else <<>>) and what HttpResponseBytes()
\* returns when the payload has that one (else <<>>).
Payload(value, httpResponse, httpResponseBytes) ==
    [value |-> value, HttpResponse |-> httpResponse, HttpResponseBytes |-> httpResponseBytes]

\* ForwardSuccess(data) of src/response/response.go
ForwardSuccess_response(c, data) ==
    forwardOutput(c, StatusOK,
                  ValueData(IF data.HttpResponse # <<>> THEN data.HttpResponse[1]
                            ELSE data.value))

\* ForwardSuccess(data) of src/unnamed/part_003: on echo only a payload with
\* HttpResponseBytes is written.
ForwardSuccess_part_003(c, data) ==
    IF c.r.runtime = "fasthttp"
    THEN forwardOutput(c, StatusOK,
                       ValueData(IF data.HttpResponse # <<>> THEN data.HttpResponse[1]
                                 ELSE data.value))
    ELSE IF data.HttpResponseBytes # <<>>
    THEN IF data.HttpResponseBytes[1].e # NoError
         THEN Outcome(<<>>, data.HttpResponseBytes[1].e, FALSE, 0)
         ELSE forwardOutput(c, StatusOK, StringData(data.HttpResponseBytes[1].b))
    ELSE Outcome(<<>>, NoError, FALSE, 0)

ForwardSuccessCall(c, data) ==
    IF c.r.pkg = "response" THEN ForwardSuccess_response(c, data)
    ELSE ForwardSuccess_part_003(c, data)

(***************************************************************************)
(* The inputs of the model.                                                *)
(***************************************************************************)
\* How many times Submit is called on one handle.
MaxSubmits == 2

ServiceNames == {<<"svc">>}

\* NewFactory(options): logger tells whether options.Logger is not nil.
NewFactory(hide, serviceName, logger) ==
    [hideMessageDetails |-> hide, serviceName |-> serviceName, logger |-> logger]

Factories ==
    {NewFactory(h, n, l) : h \in BOOLEAN, n \in ServiceNames, l \in BOOLEAN}

ValidationFailure ==
    MarshalerError(<<"field1: cannot be blank; field2@query: must be > 10.">>,
                   <<[k |-> <<"field1">>, v |-> <<"cannot be blank">>],
                     [k |-> <<"field2", "@", "query">>,
                      v |-> <<"must be", SPACE, GT, SPACE, "10">>]>>)

\* The causes handed to InvalidArgument and Internal; NoError is a nil cause.
Causes == {ErrorString(<<"db timeout">>), ValidationFailure, NoError}

PreconditionMessages == {<<"order already shipped">>, <<"say", SPACE, QUOTE, "please", QUOTE>>}

\* The arguments of WithCode
Codes == {0, 42}

\* logger.Attribute lists handed to WithAttributes
AttributeLists == {<<>>, <<[key |-> <<"user.id">>, value |-> <<"u-17">>]>>}

\* The handles the five constructors of f return.
Constructed(f) ==
    {InvalidArgumentCall(f, c) : c \in Causes}
    \cup {FailedPreconditionCall(f, m) : m \in PreconditionMessages}
    \cup {NotFoundCall(f)}
    \cup {InternalCall(f, c) : c \in Causes}
    \cup {PermissionDeniedCall(f)}

\* The records such a handle can hold when Submit returns it: as
\* constructed, or with the code WithCode stored.
SubmittedRecords ==
    UNION {{h.err} \cup {[h.err EXCEPT !.Code = code] : code \in Codes} :
              h \in UNION {Constructed(f) : f \in Factories}}

Object(members) == MarshalValue(JObj(members))

\* Errors that do not come from a Factory.
ForeignErrors ==
    { ErrorString(<<"connection refused">>),
      ErrorString(<<>>),
      ErrorString(Object(<<>>)),
      ErrorString(LitNull),
      ErrorString(<<"7">>),
      ErrorString(Object(<<[k |-> <<"kind">>, v |-> JStr(<<"TimeoutError">>)],
                           [k |-> <<"message">>, v |-> JStr(<<"upstream timed out">>)]>>)),
      ErrorString(Object(<<[k |-> <<"Kind">>, v |-> JStr(<<"NotFoundError">>)],
                           [k |-> <<"code">>, v |-> JNum(77)],
                           [k |-> <<"destination">>, v |-> JStr(<<"queue-3">>)]>>)),
      ErrorString(Object(<<[k |-> <<"kind">>, v |-> JStr(<<"validationerror">>)]>>)),
      ErrorString(Object(<<[k |-> <<"code">>, v |-> JStr(<<"x">>)],
                           [k |-> <<"kind">>, v |-> JStr(<<"InternalError">>)]>>)),
      ErrorString(Object(<<[k |-> <<"kind">>, v |-> JStr(<<"ValidationError">>)],
                           [k |-> <<"details">>, v |-> JNum(5)]>>)),
      ErrorString(Object(<<[k |-> <<"kind">>, v |-> JStr(<<"ValidationError">>)],
                           [k |-> <<"details">>,
                            v |-> JObj(<<[k |-> <<"b">>, v |-> JStr(<<"too long", ".">>)],
                                         [k |-> <<"a">>, v |-> JStr(<<"required">>)]>>)]>>)),
      GoError("*json.SyntaxError", <<"unexpected end of JSON input">>, <<>>),
      GoError("*json.UnmarshalTypeError",
              <<"json: cannot unmarshal ", "string", " into Go struct field ", "age">>,
              <<"age">>),
      GoError("*status.Error", <<"rpc error: code = Unavailable desc = ", "backend down">>,
              <<"backend down">>) }

ErrorInputs == ForeignErrors \cup {ErrorValue(e) : e \in SubmittedRecords}

Payloads ==
    { Payload(JStr(<<"report">>), <<>>, <<>>),
      Payload(JStr(<<"report">>), <<JStr(<<"summary">>)>>, <<>>),
      Payload(JStr(<<"report">>), <<>>, <<[b |-> <<"summary bytes">>, e |-> NoError]>>),
      Payload(JStr(<<"report">>), <<JStr(<<"summary">>)>>,
              <<[b |-> <<>>, e |-> ErrorString(<<"render failed">>)]>>),
      Payload(Unsupported, <<>>, <<>>),
      Payload(JStr(<<"report">>), <<Unsupported>>, <<>>) }

\* The Content-Type header of the incoming request; <<>> when it has none.
RequestContentTypes == {<<>>, <<"text/xml">>}

\* The arguments of SetContentType
ContentTypes == {<<"application/problem+json">>}

\* The arguments of SetResponseCode
ResponseCodes == {0, 201, 404}

\* The user values of the fasthttp request, besides handler-response-code.
UserValue(key, value, isString) == [key |-> key, value |-> value, isString |-> isString]

UserValueLists ==
    { <<>>,
      <<UserValue(<<"handler-attribute-", "X-Trace">>, <<"t-1">>, TRUE),
        UserValue(<<"session">>, <<"s-9">>, TRUE)>>,
      <<UserValue(<<"handler-attribute-", "X-Count">>, <<"3">>, FALSE)>> }

Packages == {"response", "part_003"}

GatewayName == <<"gateway">>

\* NewFromFasthttp(ctx, options): the content type is the request's.  request
\* is the Content-Type header of the request ctx holds.
NewFromFasthttp(pkg, requestContentType, serviceName) ==
    [pkg |-> pkg, runtime |-> "fasthttp", customCode |-> 0, serviceName |-> serviceName,
     contentType |-> requestContentType, request |-> requestContentType]

\* NewFromEcho(ctx, options): the content type is fixed.
NewFromEcho(pkg, requestContentType, serviceName) ==
    [pkg |-> pkg, runtime |-> "echo", customCode |-> 0, serviceName |-> serviceName,
     contentType |-> <<"application/json">>, request |-> requestContentType]

(***************************************************************************)
(* The state.                                                              *)
(***************************************************************************)
VARIABLES
    factory,      \* the Factory
    handle,       \* <<>>, or <<s>> with s the *ServiceError a constructor returned
    built,        \* <<>>, or the constructor called, the handle as it returned it,
                  \* and the code last passed to WithCode (<<>> when none was)
    logs,         \* the records the logger received, in order
    returned,     \* how many times Submit returned the handle's *Error
    rendered,     \* <<>>, or <<[e |-> record, text |-> the text its Error() returned]>>
    response,     \* the *Response
    userValues,   \* the values stored in the request (fasthttp user values, echo store)
    responseCode, \* its user value handler-response-code: <<>> when nil, or <<code>>
    contentTypeSet, \* <<>>, or <<c>> with c the argument of the last SetContentType
    appended,     \* echo: the request context holds the *Response
    call,         \* the terminal call made: its name and argument
    wire,         \* the responses handed to the runtime, in order
    ret,          \* the error the terminal call returned
    calls,        \* how many times ForwardError was entered
    pc,           \* "open", "done" after the terminal call, "panic"
    probe         \* a decoded error string and what its methods returned

vars == <<factory, handle, built, logs, returned, rendered, response, userValues, contentTypeSet,
          responseCode, appended, call, wire, ret, calls, pc, probe>>

errorVars == <<factory, handle, built, logs, returned, rendered>>

responseVars ==
    <<response, userValues, contentTypeSet, responseCode, appended, call, wire, ret, calls>>

\* probe: the error string, the stage ("input", then "decoded" or "failed"),
\* the decoded record, and the results of the methods called on it so far.
Probe(input, stage, record, known, code, body) ==
    [input |-> input, stage |-> stage, s |-> record, known |-> known, code |-> code,
     body |-> body]

NoProbe == Probe(<<>>, "none", ZeroServiceError, <<>>, <<>>, <<>>)

NoCall == [op |-> "none", err |-> NoError, data |-> Payload(JNull, <<>>, <<>>)]

\* The request context forwardOutput reads.
Ctx == [r |-> response, userValues |-> userValues, responseCode |-> responseCode]

(***************************************************************************)
(* The HTTP boundary: one Response per request.                            *)
(***************************************************************************)
Init ==
    /\ factory = NewFactory(FALSE, <<"svc">>, TRUE)
    /\ handle = <<>>
    /\ built = <<>>
    /\ logs = <<>>
    /\ returned = 0
    /\ rendered = <<>>
    /\ \E pkg \in Packages :
          \/ \E ct \in RequestContentTypes : response = NewFromFasthttp(pkg, ct, GatewayName)
          \/ \E ct \in RequestContentTypes : response = NewFromEcho(pkg, ct, GatewayName)
    /\ userValues \in UserValueLists
    /\ contentTypeSet = <<>>
    /\ responseCode = <<>>
    /\ appended = FALSE
    /\ call = NoCall
    /\ wire = <<>>
    /\ ret = NoError
    /\ calls = 0
    /\ pc = "open"
    /\ probe = NoProbe

\* AppendResponseToContext(ctx, r), with ctx the context of an echo request
AppendResponseToContext ==
    /\ pc = "open"
    /\ response.runtime = "echo"
    /\ ~appended
    /\ appended' = TRUE
    /\ UNCHANGED <<probe, errorVars, response, userValues, contentTypeSet, responseCode, call,
                   wire, ret, calls, pc>>

\* SetResponseCode(ctx, code): ctx is the fasthttp request, or the context of
\* the echo request, on which RetrieveFromContext panics when the context
\* does not hold the Response.
SetResponseCode(code) ==
    /\ pc = "open"
    /\ IF response.runtime = "fasthttp"
       THEN /\ responseCode' = <<code>>
            /\ UNCHANGED <<probe, response, pc>>
       ELSE IF appended
       THEN /\ response' = [response EXCEPT !.customCode = code]
            /\ UNCHANGED <<probe, responseCode, pc>>
       ELSE /\ pc' = "panic"
            /\ UNCHANGED <<probe, response, responseCode>>
    /\ UNCHANGED <<probe, errorVars, userValues, contentTypeSet, appended, call, wire, ret, calls>>

SetContentType(contentType) ==
    /\ pc = "open"
    /\ response' = [response EXCEPT !.contentType = contentType]
    /\ contentTypeSet' = <<contentType>>
    /\ UNCHANGED <<probe, errorVars, userValues, responseCode, appended, call, wire, ret, calls, pc>>

\* A terminal call returned out.
Terminal(op, err, data, out) ==
    /\ call' = [op |-> op, err |-> err, data |-> data]
    /\ wire' = wire \o out.writes
    /\ ret' = out.ret
    /\ calls' = calls + out.calls
    /\ pc' = IF out.panic THEN "panic" ELSE "done"
    /\ UNCHANGED <<probe, errorVars, response, userValues, contentTypeSet, responseCode, appended>>

ForwardError(err) ==
    /\ pc = "open"
    /\ Terminal("ForwardError", err, NoCall.data, ForwardErrorCall(Ctx, err))

ForwardAuthenticationError(err) ==
    /\ pc = "open"
    /\ Terminal("ForwardAuthenticationError", err, NoCall.data,
                ForwardAuthenticationErrorCall(Ctx, err))

ForwardSuccess(data) ==
    /\ pc = "open"
    /\ Terminal("ForwardSuccess", NoError, data, ForwardSuccessCall(Ctx, data))

Next ==
    \/ AppendResponseToContext
    \/ \E code \in ResponseCodes : SetResponseCode(code)
    \/ \E contentType \in ContentTypes : SetContentType(contentType)
    \/ \E err \in ErrorInputs : ForwardError(err)
    \/ \E err \in ErrorInputs : ForwardAuthenticationError(err)
    \/ \E data \in Payloads : ForwardSuccess(data)

Spec == Init /\ [][Next]_vars

(***************************************************************************)
(* The producing service: one Factory, one handle.                         *)
(***************************************************************************)
InitErrors ==
    /\ factory \in Factories
    /\ handle = <<>>
    /\ built = <<>>
    /\ logs = <<>>
    /\ returned = 0
    /\ rendered = <<>>
    /\ response = NewFromEcho("response", <<>>, GatewayName)
    /\ userValues = <<>>
    /\ contentTypeSet = <<>>
    /\ responseCode = <<>>
    /\ appended = FALSE
    /\ call = NoCall
    /\ wire = <<>>
    /\ ret = NoError
    /\ calls = 0
    /\ pc = "open"
    /\ probe = NoProbe

\* A constructor of the Factory returned the handle s.
Construct(op, s) ==
    /\ pc = "open"
    /\ handle = <<>>
    /\ handle' = <<s>>
    /\ built' = <<[op |-> op, s |-> s, code |-> <<>>]>>
    /\ UNCHANGED <<probe, factory, logs, returned, rendered, responseVars, pc>>

InvalidArgument(err) == Construct("InvalidArgument", InvalidArgumentCall(factory, err))

FailedPrecondition(message) ==
    Construct("FailedPrecondition", FailedPreconditionCall(factory, message))

NotFound == Construct("NotFound", NotFoundCall(factory))

Internal(err) == Construct("Internal", InternalCall(factory, err))

PermissionDenied == Construct("PermissionDenied", PermissionDeniedCall(factory))

\* WithCode that returns the handle without storing the code
WithCode_nostore(code) ==
    /\ pc = "open"
    /\ handle # <<>>
    /\ built' = <<[built[1] EXCEPT !.code = <<code>>]>>
    /\ UNCHANGED <<probe, handle, factory, logs, returned, rendered, responseVars, pc>>

WithCode(code) ==
    /\ pc = "open"
    /\ handle # <<>>
    /\ handle' = <<[handle[1] EXCEPT !.err.Code = code]>>
    /\ built' = <<[built[1] EXCEPT !.code = <<code>>]>>
    /\ UNCHANGED <<probe, factory, logs, returned, rendered, responseVars, pc>>

WithAttributes(attrs) ==
    /\ pc = "open"
    /\ handle # <<>>
    /\ handle' = <<[handle[1] EXCEPT !.attributes = attrs]>>
    /\ UNCHANGED <<probe, built, factory, logs, returned, rendered, responseVars, pc>>

\* withKind(kind) and logger.Error(err)
withKind(kind) == [key |-> <<"error.kind">>, value |-> kind]
LoggerError(err) == [key |-> <<"error.message">>, value |-> err.msg]

\* The record s.logger receives from Submit.
LogRecord(s) ==
    [level |-> s.logger,
     msg |-> s.err.Message,
     attrs |-> <<withKind(s.err.Kind)>>
               \o (IF s.err.SublevelError # NoError
                   THEN <<LoggerError(s.err.SublevelError)>> ELSE <<>>)
               \o s.attributes]

\* Submit that returns the error without calling the logger
Submit_silent ==
    /\ pc = "open"
    /\ handle # <<>>
    /\ returned < MaxSubmits
    /\ returned' = returned + 1
    /\ UNCHANGED <<probe, built, factory, handle, logs, rendered, responseVars, pc>>

\* Submit(ctx).  s.logger is the method value f.logger.Warn (Error, Info),
\* which is not nil even when f.logger is: the call then runs the method on
\* a nil *Logger, which panics reading l.fieldExtractor.
Submit ==
    /\ pc = "open"
    /\ handle # <<>>
    /\ returned < MaxSubmits
    /\ IF factory.logger
       THEN /\ logs' = Append(logs, LogRecord(handle[1]))
            /\ returned' = returned + 1
            /\ pc' = pc
       ELSE /\ pc' = "panic"
            /\ UNCHANGED <<probe, logs, returned>>
    /\ UNCHANGED <<probe, built, factory, handle, rendered, responseVars>>

\* Error() that writes the first attribute of the handle after the record
ErrorMethod_withattributes ==
    /\ pc = "open"
    /\ returned > 0
    /\ rendered' = <<[e |-> handle[1].err,
                      text |-> String(handle[1].err)
                               \o (IF handle[1].attributes # <<>>
                                   THEN handle[1].attributes[1].value ELSE <<>>)]>>
    /\ UNCHANGED <<probe, built, factory, handle, logs, returned, responseVars, pc>>

\* err.Error() on the error Submit returned, which is the handle's *Error.
ErrorMethod ==
    /\ pc = "open"
    /\ returned > 0
    /\ rendered' = <<[e |-> handle[1].err, text |-> String(handle[1].err)]>>
    /\ UNCHANGED <<probe, built, factory, handle, logs, returned, responseVars, pc>>

NextErrors ==
    \/ \E err \in Causes : InvalidArgument(err)
    \/ \E message \in PreconditionMessages : FailedPrecondition(message)
    \/ NotFound
    \/ \E err \in Causes : Internal(err)
    \/ PermissionDenied
    \/ \E code \in Codes : WithCode(code)
    \/ \E attrs \in AttributeLists : WithAttributes(attrs)
    \/ Submit
    \/ ErrorMethod

SpecErrors == InitErrors /\ [][NextErrors]_vars

(***************************************************************************)
(* The classifier on its own: an error string is decoded and the methods   *)
(* of the record are called on it.                                         *)
(***************************************************************************)
InitClassify ==
    /\ factory = NewFactory(FALSE, <<"svc">>, TRUE)
    /\ handle = <<>>
    /\ built = <<>>
    /\ logs = <<>>
    /\ returned = 0
    /\ rendered = <<>>
    /\ response = NewFromEcho("response", <<>>, GatewayName)
    /\ userValues = <<>>
    /\ contentTypeSet = <<>>
    /\ responseCode = <<>>
    /\ appended = FALSE
    /\ call = NoCall
    /\ wire = <<>>
    /\ ret = NoError
    /\ calls = 0
    /\ pc = "open"
    /\ \E err \in ErrorInputs : probe = Probe(err.msg, "input", ZeroServiceError, <<>>, <<>>, <<>>)

\* serviceErrorFromString(s)
DecodeStep ==
    /\ probe.stage = "input"
    /\ \E decoded \in {serviceErrorFromString(probe.input)} :
          probe' = [probe EXCEPT !.stage = IF decoded.e = NoError THEN "decoded" ELSE "failed",
                                 !.s = decoded.s]
    /\ UNCHANGED <<errorVars, responseVars, pc>>

\* s.IsKnownError()
IsKnownErrorStep ==
    /\ probe.stage = "decoded"
    /\ probe.known = <<>>
    /\ probe' = [probe EXCEPT !.known = <<IsKnownError(probe.s)>>]
    /\ UNCHANGED <<errorVars, responseVars, pc>>

\* s.ResponseCode()
ResponseCodeStep ==
    /\ probe.stage = "decoded"
    /\ probe.code = <<>>
    /\ probe' = [probe EXCEPT !.code = <<ResponseCode(probe.s)>>]
    /\ UNCHANGED <<errorVars, responseVars, pc>>

\* s.ToResponseError()
ToResponseErrorStep ==
    /\ probe.stage = "decoded"
    /\ probe.body = <<>>
    /\ probe' = [probe EXCEPT !.body = <<ToResponseError(probe.s)>>]
    /\ UNCHANGED <<errorVars, responseVars, pc>>

NextClassify ==
    \/ DecodeStep
    \/ IsKnownErrorStep
    \/ ResponseCodeStep
    \/ ToResponseErrorStep

SpecClassify == InitClassify /\ [][NextClassify]_vars

(***************************************************************************)
(* The parser of validation details on its own: newValidationErrorFields   *)
(* is called on a text.                                                    *)
(***************************************************************************)
\* How many segments an input of the parser has.
MaxSegments == 2

\* The separator of segments: a quote, a comma, a quote.
SegmentSeparator == <<QUOTE, COMMA, QUOTE>>

\* Segments as ToResponseError hands them over (the members of a marshalled
\* object without the outer quotes), and segments written by hand.
Segments ==
    { <<"field1", QUOTE, COLON, QUOTE, "message", SPACE, "one">>,
      <<"field2", "@", "query", QUOTE, COLON, QUOTE, "message", SPACE, "two", ".">>,
      <<"field3", COLON, SPACE, "too", SPACE, "long", ".">>,
      <<"oops">>,
      <<"field", COLON, SPACE, "value", COLON, SPACE, "check", SPACE, "config">>,
      <<SPACE, "a", SPACE, "@", SPACE, "query", SPACE, COLON, "x">>,
      <<"name", SPACE, COLON, SPACE, "required", SPACE, ".">>,
      <<"id", "@", "path", "@", "v2", COLON, SPACE, "bad">> }

RECURSIVE JoinSegments(_)
JoinSegments(segs) ==
    IF Len(segs) = 1 THEN segs[1]
    ELSE segs[1] \o SegmentSeparator \o JoinSegments(Tail(segs))

SegmentLists == UNION {[1..n -> Segments] : n \in 1..MaxSegments}

\* The example of the documentation, whose entries a comma and a space separate.
CommaSeparatedExample ==
    <<"field1", COLON, SPACE, "message", SPACE, "one", COMMA, SPACE,
      "field2", "@", "query", COLON, SPACE, "message", SPACE, "two", ".">>

\* The same entries as the members of a marshalled object, outer braces removed.
MarshalledExample ==
    <<QUOTE, "field1", QUOTE, COLON, QUOTE, "message", SPACE, "one", QUOTE, COMMA,
      QUOTE, "field2", "@", "query", QUOTE, COLON, QUOTE, "message", SPACE, "two",
      ".", QUOTE>>

ParserInputs ==
    {JoinSegments(segs) : segs \in SegmentLists}
    \cup {<<QUOTE>> \o JoinSegments(segs) \o <<QUOTE>> : segs \in SegmentLists}
    \cup {CommaSeparatedExample, MarshalledExample, <<>>}

InitParser ==
    /\ factory = NewFactory(FALSE, <<"svc">>, TRUE)
    /\ handle = <<>>
    /\ built = <<>>
    /\ logs = <<>>
    /\ returned = 0
    /\ rendered = <<>>
    /\ response = NewFromEcho("response", <<>>, GatewayName)
    /\ userValues = <<>>
    /\ contentTypeSet = <<>>
    /\ responseCode = <<>>
    /\ appended = FALSE
    /\ call = NoCall
    /\ wire = <<>>
    /\ ret = NoError
    /\ calls = 0
    /\ pc = "open"
    /\ \E err \in ParserInputs : probe = Probe(err, "text", ZeroServiceError, <<>>, <<>>, <<>>)

\* newValidationErrorFields(err): probe.body holds the fields returned.
newValidationErrorFieldsStep ==
    /\ probe.stage = "text"
    /\ probe' = [probe EXCEPT !.stage = "parsed",
                              !.body = <<newValidationErrorFields(probe.input)>>]
    /\ UNCHANGED <<errorVars, responseVars, pc>>

NextParser == newValidationErrorFieldsStep

SpecParser == InitParser /\ [][NextParser]_vars

(***************************************************************************)
(* package converters: which conversions the package supports.             *)
(***************************************************************************)
\* supportedTypeToConverterType: protobuf or Go type -> converter type
supportedTypeToConverterType ==
    [ double |-> "Float64", float |-> "Float32", int32 |-> "Int32", int64 |-> "Int64",
      uint32 |-> "UInt32", uint64 |-> "UInt64", sint32 |-> "Int32", sint64 |-> "Int64",
      fixed32 |-> "UInt32", fixed64 |-> "UInt64", sfixed32 |-> "Int32",
      sfixed64 |-> "Int64", bool |-> "Bool", string |-> "String", bytes |-> "Bytes" ]
    @@ ("google.protobuf.Timestamp" :> "Timestamp")
    @@ ("google.protobuf.StringValue" :> "StringValue")
    @@ ("google.protobuf.FloatValue" :> "FloatValue")
    @@ ("google.protobuf.BoolValue" :> "BoolValue")
    @@ ("google.protobuf.Int32Value" :> "Int32Value")
    @@ ("google.protobuf.Int64Value" :> "Int64Value")
    @@ ("google.protobuf.UInt32Value" :> "UInt32Value")
    @@ ("google.protobuf.UInt64Value" :> "UInt64Value")
    @@ ("google.protobuf.DoubleValue" :> "DoubleValue")
    @@ ("google.protobuf.Struct" :> "Struct")
    @@ ("google.protobuf.Value" :> "Value")
    @@ ("time.Time" :> "Time") @@ ("float32" :> "Float32") @@ ("float64" :> "Float64")
    @@ ("int" :> "Int") @@ ("uint" :> "UInt") @@ ("*string" :> "StringPointer")
    @@ ("*time.Time" :> "TimePointer") @@ ("*int32" :> "Int32Pointer")
    @@ ("*int64" :> "Int64Pointer") @@ ("*uint32" :> "UInt32Pointer")
    @@ ("*uint64" :> "UInt64Pointer") @@ ("*float32" :> "Float32Pointer")
    @@ ("*float64" :> "Float64Pointer") @@ ("*bool" :> "BoolPointer")
    @@ ("map[string]interface{}" :> "Map") @@ ("json" :> "Json")
    @@ ("interface{}" :> "Interface")

\* type Converter; ok tells whether ConverterType returned it without error.
Converter(original, output, ok) == [original |-> original, output |-> output, ok |-> ok]

\* ConverterType(protobufType): the type is a text, with or without the
\* leading "." of a fully qualified protobuf name.
ConverterType(protobufType) ==
    LET key == TrimPrefix(protobufType, <<".">>)
    IN  IF Len(key) = 1 /\ key[1] \in DOMAIN supportedTypeToConverterType
        THEN Converter(protobufType, supportedTypeToConverterType[key[1]], TRUE)
        ELSE Converter(protobufType, "", FALSE)

NumberTypes == {"int", "int32", "int64", "uint", "uint32", "uint64", "float32", "float64"}

\* conversionMap: converter type of the source -> the destinations
conversionMap ==
    [ String |-> NumberTypes \cup {"bool", "time.Time", "*time.Time", "*string", "json"},
      Timestamp |-> {"time.Time", "*time.Time"},
      StringValue |-> NumberTypes \cup {"bool", "time.Time", "*time.Time", "string", "*string"},
      Int32Value |-> {"int32", "*int32"}, Int64Value |-> {"int64", "*int64"},
      UInt32Value |-> {"uint32", "*uint32"}, UInt64Value |-> {"uint64", "*uint64"},
      FloatValue |-> {"float32", "*float32"}, DoubleValue |-> {"float64", "*float64"},
      BoolValue |-> {"bool", "*bool"}, Struct |-> {"map[string]interface{}"},
      Bool |-> {"*bool"}, Int32 |-> {"*int32"}, Int64 |-> {"*int64"},
      Float32 |-> {"*float32"}, Float64 |-> {"*float64"}, UInt32 |-> {"*uint32"},
      UInt64 |-> {"*uint64"}, Value |-> {"interface{}"} ]

\* IsSupportedConversion(from, to): the error returned (NoError for nil).
\* The source is looked up by from.String(), the destination by
\* to.Original(), the text ConverterType was given.
IsSupportedConversion(from, to) ==
    IF from.output \notin DOMAIN conversionMap
    THEN ErrorString(<<"'", from.output, "' is not supported as conversion source">>)
    ELSE IF to.original \notin {<<d>> : d \in conversionMap[from.output]}
    THEN ErrorString(<<"'", from.output, "' type cannot be converted into '">>
                     \o to.original \o <<"'">>)
    ELSE NoError

\* The types handed to ConverterType: every supported type, some of them
\* fully qualified, and one that is not supported.
TypeTexts ==
    {<<t>> : t \in DOMAIN supportedTypeToConverterType}
    \cup {<<".", t>> : t \in {"google.protobuf.StringValue", "bool", "string"}}
    \cup {<<"decimal">>}

InitConversion ==
    /\ factory = NewFactory(FALSE, <<"svc">>, TRUE)
    /\ handle = <<>>
    /\ built = <<>>
    /\ logs = <<>>
    /\ returned = 0
    /\ rendered = <<>>
    /\ response = NewFromEcho("response", <<>>, GatewayName)
    /\ userValues = <<>>
    /\ contentTypeSet = <<>>
    /\ responseCode = <<>>
    /\ appended = FALSE
    /\ call = NoCall
    /\ wire = <<>>
    /\ ret = NoError
    /\ calls = 0
    /\ pc = "open"
    /\ \E from \in TypeTexts, to \in TypeTexts :
          probe = Probe(<<from, to>>, "types", ZeroServiceError, <<>>, <<>>, <<>>)

\* ConverterType on both types and, when both are valid, IsSupportedConversion:
\* probe.body holds the two converters and the error returned.
IsSupportedConversionStep ==
    /\ probe.stage = "types"
    /\ \E from \in {ConverterType(probe.input[1])}, to \in {ConverterType(probe.input[2])} :
          probe' = [probe EXCEPT
                       !.stage = IF from.ok /\ to.ok THEN "checked" ELSE "invalid",
                       !.body = IF from.ok /\ to.ok
                                THEN <<[from |-> from, to |-> to,
                                        err |-> IsSupportedConversion(from, to)]>>
                                ELSE <<>>]
    /\ UNCHANGED <<errorVars, responseVars, pc>>

NextConversion == IsSupportedConversionStep

SpecConversion == InitConversion /\ [][NextConversion]_vars

(***************************************************************************)
(* Properties.                                                             *)
(***************************************************************************)
\* A status override is in force: on fasthttp the user value
\* handler-response-code is set, on echo customCode is not zero.
OverrideInForce ==
    IF response.runtime = "fasthttp" THEN responseCode # <<>> ELSE response.customCode # 0

Override == IF response.runtime = "fasthttp" THEN responseCode[1] ELSE response.customCode

\* The error string of err does not decode to a record.
DecodeFails(err) == serviceErrorFromString(err.msg).e # NoError

\* C1: ForwardError given an error whose string is not JSON for the record
\* writes status 500 and a body with the message "internal service error" and
\* with details equal to the message of the error it was given.
C1_DetailsAreTheOriginalMessage ==
    (pc = "done" /\ call.op = "ForwardError" /\ DecodeFails(call.err) /\ ~OverrideInForce)
    => /\ Len(wire) = 1
       /\ wire[1].status = 500
       /\ wire[1].body.re.Message = <<"internal service error">>
       /\ wire[1].body.re.Details = call.err.msg

\* The texts of a nested detail: its message and, when it marshals to an
\* object, the keys and values of the object.
DetailTexts(err) ==
    IF err = NoError THEN {}
    ELSE {err.msg} \cup {err.m[i].k : i \in 1..Len(err.m)}
                   \cup {err.m[i].v : i \in 1..Len(err.m)}

\* C2: the string of a record built by a constructor of a Factory with
\* hideDetails contains neither the service name of the factory, nor the
\* destination of the record, nor a text of the nested detail.
C2_HiddenDetailsAreAbsent ==
    (rendered # <<>> /\ rendered[1].e.hideDetails)
    => /\ ~Contains(rendered[1].text, rendered[1].e.ServiceName)
       /\ rendered[1].e.Destination # <<>>
             => ~Contains(rendered[1].text, rendered[1].e.Destination)
       /\ \A t \in DetailTexts(rendered[1].e.SublevelError) : ~Contains(rendered[1].text, t)

\* C3: ResponseCode is decided by the kind alone: 400 for ValidationError, 404
\* for NotFoundError, 412 for ConditionError, 401 for PermissionError and 500
\* for InternalError and any other kind, whatever the other fields hold.
C3_ResponseCodeByKind ==
    probe.code # <<>>
    => probe.code[1] = CASE probe.s.Kind = <<"ValidationError">> -> 400
                         [] probe.s.Kind = <<"NotFoundError">> -> 404
                         [] probe.s.Kind = <<"ConditionError">> -> 412
                         [] probe.s.Kind = <<"PermissionError">> -> 401
                         [] OTHER -> 500

\* A PermissionError record whose code was replaced maps to 401.
C3_Witness ==
    /\ probe.code = <<401>>
    /\ probe.s.Kind = <<"PermissionError">>
    /\ probe.s.Code = 42

\* C4: IsKnownError is true exactly for the five kinds ValidationError,
\* InternalError, NotFoundError, ConditionError and PermissionError; it is
\* false for any other kind, the empty kind of a foreign object included.
C4_KnownKinds ==
    probe.known # <<>>
    => probe.known[1] = (probe.s.Kind \in {<<"ValidationError">>, <<"InternalError">>,
                                            <<"NotFoundError">>, <<"ConditionError">>,
                                            <<"PermissionError">>})

\* The empty object decodes to a record with the empty kind, which is unknown.
C4_Witness ==
    /\ probe.input = <<LBRACE, RBRACE>>
    /\ probe.s.Kind = <<>>
    /\ probe.known = <<FALSE>>

ErrorCalls == {"ForwardError", "ForwardAuthenticationError"}

SuccessOrKnownError ==
    \/ call.op = "ForwardSuccess"
    \/ /\ call.op = "ForwardError"
       /\ ~DecodeFails(call.err)
       /\ IsKnownError(serviceErrorFromString(call.err.msg).s)

\* C6: with a status override in force, ForwardSuccess writes the override
\* and not 200, and ForwardError of a known error writes the override and not
\* the status of the kind, on fasthttp and on echo; response.go writes one
\* response in each of these calls.
C6_OverrideTakesPrecedence ==
    (pc = "done" /\ OverrideInForce /\ SuccessOrKnownError)
    => /\ \A i \in 1..Len(wire) : wire[i].status = Override
       /\ Len(wire) <= 1
       /\ response.pkg = "response" => Len(wire) = 1

\* ForwardSuccess on echo after SetResponseCode(201) wrote 201.
C6_Witness ==
    /\ pc = "done"
    /\ call.op = "ForwardSuccess"
    /\ response.runtime = "echo"
    /\ response.customCode = 201
    /\ Len(wire) = 1
    /\ wire[1].status = 201

\* C7: ForwardError given an error whose string decodes to a record of an
\* unknown kind, and which is neither a status error nor a JSON parse error,
\* writes 500 with the message of the error as details and the service name
\* of the Response as source.
C7_UnknownKindKeepsMessage ==
    (/\ pc = "done"
     /\ call.op = "ForwardError"
     /\ call.err.type = "*errors.errorString"
     /\ ~DecodeFails(call.err)
     /\ ~IsKnownError(serviceErrorFromString(call.err.msg).s)
     /\ ~OverrideInForce)
    => /\ Len(wire) = 1
       /\ wire[1].status = 500
       /\ wire[1].body.re.Details = call.err.msg
       /\ wire[1].body.re.Source = response.serviceName

\* C8: ForwardError given a JSON syntax error writes 400 with the message
\* "invalid json body", and given a JSON type error writes 400 with the
\* message "invalid value for json field".
C8_JsonErrorsAreBadRequests ==
    (pc = "done" /\ call.op = "ForwardError" /\ ~OverrideInForce)
    => /\ call.err.type = "*json.SyntaxError"
          => /\ Len(wire) = 1
             /\ wire[1].status = 400
             /\ wire[1].body.re.Message = <<"invalid json body">>
       /\ call.err.type = "*json.UnmarshalTypeError"
          => /\ Len(wire) = 1
             /\ wire[1].status = 400
             /\ wire[1].body.re.Message = <<"invalid value for json field">>

\* C9: a terminal call on a new Response has written one response when it
\* returns.
C9_OneResponsePerTerminalCall ==
    pc = "done" => Len(wire) = 1

\* The nested detail as a value: nothing, the object a marshaler writes, or
\* the message of the error.
DetailValue(err) ==
    IF err = NoError THEN JNull
    ELSE IF err.type = "json.Marshaler" THEN MarshalError(err)
    ELSE JStr(err.msg)

\* C10: the string of a record that does not hide its details decodes to a
\* record with the same code, service name, message, destination, kind and
\* nested detail.
C10_RoundTrip ==
    (rendered # <<>> /\ ~rendered[1].e.hideDetails)
    => \E decoded \in {serviceErrorFromString(rendered[1].text)} :
          /\ decoded.e = NoError
          /\ decoded.s.Code = rendered[1].e.Code
          /\ decoded.s.ServiceName = rendered[1].e.ServiceName
          /\ decoded.s.Message = rendered[1].e.Message
          /\ decoded.s.Destination = rendered[1].e.Destination
          /\ decoded.s.Kind = rendered[1].e.Kind
          /\ decoded.s.SublevelError = DetailValue(rendered[1].e.SublevelError)

\* The parser has returned.
Parsed == probe.stage = "parsed"

\* The two fields of the example.
ExampleFields ==
    <<Field(<<"field1">>, <<"message", SPACE, "one">>, <<"body">>),
      Field(<<"field2">>, <<"message", SPACE, "two">>, <<"query">>)>>

\* C11, as claimed: on the input `field1: message one, field2@query: message
\* two.` newValidationErrorFields returns two fields, in order: field1 in the
\* body with "message one", field2 in the query with "message two".
C11_CommaSeparatedExampleGivesTwoFields ==
    (Parsed /\ probe.input = CommaSeparatedExample) => probe.body[1] = ExampleFields

\* C11, amended: the two fields are returned when the entries are separated
\* by quote-comma-quote, as in `"field1":"message one","field2@query":"message
\* two."`; the input of the claim has no such separator and more than one
\* colon, and gives one field: field1 in the body, whose message is the rest
\* of the text without its final period.
C11_MarshalledExampleGivesTwoFields ==
    /\ (Parsed /\ probe.input = MarshalledExample) => probe.body[1] = ExampleFields
    /\ (Parsed /\ probe.input = CommaSeparatedExample)
          => probe.body[1] =
                <<Field(<<"field1">>,
                        <<"message", SPACE, "one", COMMA, SPACE, "field2", "@", "query",
                          COLON, SPACE, "message", SPACE, "two">>,
                        <<"body">>)>>

C11_Witness ==
    /\ Parsed
    /\ probe.input = MarshalledExample
    /\ Len(probe.body[1]) = 2
    /\ probe.body[1][2].Location = <<"query">>

\* A segment as the parser reads it: without quotes and surrounding blanks.
CleanSegment(seg) == TrimSpace(ReplaceAll(seg, <<QUOTE>>, <<>>))

\* How many colons a segment has.
Colons(seg) == Len(Split(CleanSegment(seg), <<COLON>>)) - 1

HasColon(seg) == Colons(seg) >= 1

\* The segments of the input, and those of them that have a colon.
InputSegments == Split(probe.input, SegmentSeparator)

Survivors == SelectSeq(InputSegments, HasColon)

\* The text of a segment after its key and the first colon, without
\* surrounding blanks and without a final period.
OwnMessage(seg) ==
    LET re == CleanSegment(seg)
        key == Split(re, <<COLON>>)[1]
    IN  TrimSuffix(TrimSpace(SubSeq(re, Len(key) + 2, Len(re))), <<".">>)

\* C12: a segment whose message has a colon gives a field whose message is
\* the text of that segment after its `key:` prefix: it is not cut at a colon
\* and holds no text of another segment.
C12_EmbeddedColonKeepsOwnMessage ==
    Parsed
    => /\ Len(probe.body[1]) = Len(Survivors)
       /\ \A i \in 1..Len(Survivors) :
             Colons(Survivors[i]) >= 2
             => probe.body[1][i].Message = OwnMessage(Survivors[i])

\* C13: a segment without a colon gives no field, every segment with a colon
\* gives one field, the same field as when the segments without a colon are
\* not in the input, and the fields are in the order of their segments.
C13_MalformedSegmentsAreDropped ==
    Parsed
    => /\ Len(probe.body[1]) = Len(Survivors)
       /\ probe.body[1] = IF Survivors = <<>> THEN <<>>
                          ELSE newValidationErrorFields(JoinSegments(Survivors))

\* The payload of the call has the method HttpResponse, and json.Marshal
\* accepts what the method returns.
HasSubstitute ==
    /\ call.op = "ForwardSuccess"
    /\ call.data.HttpResponse # <<>>
    /\ MarshalFailure(ValueData(call.data.HttpResponse[1])) = NoError

\* C14: ForwardSuccess given a payload with the method HttpResponse writes
\* one response, whose body is the JSON of what HttpResponse returned and not
\* of the payload, with status 200 when no status override is in force, on
\* fasthttp and on echo.
C14_SubstituteIsWritten ==
    (pc = "done" /\ HasSubstitute)
    => /\ Len(wire) = 1
       /\ wire[1].enc = "json"
       /\ wire[1].body = ValueData(call.data.HttpResponse[1])
       /\ ~OverrideInForce => wire[1].status = 200

\* The kind and the default code of each constructor, as documented.
DocumentedKind(op) ==
    CASE op = "InvalidArgument" -> <<"ValidationError">>
      [] op = "FailedPrecondition" -> <<"ConditionError">>
      [] op = "NotFound" -> <<"NotFoundError">>
      [] op = "Internal" -> <<"InternalError">>
      [] op = "PermissionDenied" -> <<"PermissionError">>

DocumentedCode(op) ==
    CASE op = "InvalidArgument" -> 3
      [] op = "FailedPrecondition" -> 4
      [] op = "NotFound" -> 2
      [] op = "Internal" -> 1
      [] op = "PermissionDenied" -> 5

\* C15: the record a constructor returns has the kind and the default code of
\* that constructor (InvalidArgument: ValidationError, 3; FailedPrecondition:
\* ConditionError, 4; NotFound: NotFoundError, 2; Internal: InternalError, 1;
\* PermissionDenied: PermissionError, 5), and the five default codes are not
\* zero and differ from each other.
C15_ConstructorKindAndCode ==
    /\ built # <<>>
          => /\ built[1].s.err.Kind = DocumentedKind(built[1].op)
             /\ built[1].s.err.Code = DocumentedCode(built[1].op)
    /\ Cardinality({CodeInternal, CodeNotFound, CodeInvalidArgument,
                     CodePreconditionFailed, CodeNoPermission} \ {0}) = 5

\* NotFound returned a NotFoundError with code 2.
C15_Witness ==
    /\ built # <<>>
    /\ built[1].op = "NotFound"
    /\ handle[1].err.Kind = <<"NotFoundError">>
    /\ handle[1].err.Code = 2

\* C16: whatever calls of WithCode, WithAttributes, Submit and Error() were
\* made on a handle, its record has the kind, service name, message,
\* destination, nested detail and hideDetails it was constructed with, and
\* its code is the one it was constructed with until WithCode is called and
\* the code last passed to WithCode from then on.
C16_OnlyCodeChanges ==
    handle # <<>>
    => LET now == handle[1].err
           then == built[1].s.err
       IN  /\ now.Kind = then.Kind
           /\ now.ServiceName = then.ServiceName
           /\ now.Message = then.Message
           /\ now.Destination = then.Destination
           /\ now.SublevelError = then.SublevelError
           /\ now.hideDetails = then.hideDetails
           /\ now.Code = IF built[1].code = <<>> THEN then.Code ELSE built[1].code[1]

\* WithCode(42), WithAttributes, two Submit calls and Error() were made on a
\* handle of InvalidArgument.
C16_Witness ==
    /\ handle # <<>>
    /\ built[1].op = "InvalidArgument"
    /\ built[1].code = <<42>>
    /\ handle[1].err.Code = 42
    /\ handle[1].attributes # <<>>
    /\ returned = 2
    /\ rendered # <<>>

\* The severity each constructor logs at, as documented.
DocumentedSeverity(op) ==
    CASE op \in {"InvalidArgument", "FailedPrecondition", "NotFound"} -> "Warn"
      [] op = "Internal" -> "Error"
      [] op = "PermissionDenied" -> "Info"

\* The attributes of the record one Submit logs for handle s: the kind, the
\* message of the nested cause when there is one, the attributes of s.
DocumentedLogAttributes(s) ==
    <<[key |-> <<"error.kind">>, value |-> s.err.Kind]>>
    \o (IF s.err.SublevelError # NoError
        THEN <<[key |-> <<"error.message">>, value |-> s.err.SublevelError.msg]>>
        ELSE <<>>)
    \o s.attributes

\* C17: on a handle of a factory that has a logger, each Submit that returns
\* adds one record to the log, at the severity of the constructor, with the
\* kind, the message of the nested cause when there is one and the
\* attributes of the handle; it leaves the string of the error it returns as
\* it was; and after n calls the log has n records.
C17_SubmitLogsOnce ==
    /\ [](factory.logger => Len(logs) = returned)
    /\ [][(factory.logger /\ returned' = returned + 1)
          => /\ Len(logs') = Len(logs) + 1
             /\ SubSeq(logs', 1, Len(logs)) = logs
             /\ logs'[Len(logs')].level = DocumentedSeverity(built[1].op)
             /\ logs'[Len(logs')].attrs = DocumentedLogAttributes(handle[1])
             /\ String(handle'[1].err) = String(handle[1].err)]_vars

\* Two Submit calls on a handle of Internal with a cause and an attribute
\* logged two records at the error severity.
C17_Witness ==
    /\ factory.logger
    /\ returned = 2
    /\ Len(logs) = 2
    /\ logs[2].level = "Error"
    /\ Len(logs[2].attrs) = 3

\* C18: on a handle of a factory without a logger, Submit logs nothing and
\* does not fail.
C18_SubmitWithoutLogger ==
    (~factory.logger /\ handle # <<>>) => (pc # "panic" /\ logs = <<>>)

\* C19: the string of the error is the string of the record as constructed
\* (with the code it had when rendered), whatever attributes the handle was
\* given, and holds no key and no value of an attribute.
C19_AttributesAreOnlyLogged ==
    rendered # <<>>
    => /\ rendered[1].text = String([built[1].s.err EXCEPT !.Code = rendered[1].e.Code])
       /\ \A attrs \in AttributeLists : \A i \in 1..Len(attrs) :
             /\ ~Contains(rendered[1].text, attrs[i].key)
             /\ ~Contains(rendered[1].text, attrs[i].value)

\* The error of a handle with an attribute was logged, then rendered.
C19_Witness ==
    /\ rendered # <<>>
    /\ handle[1].attributes # <<>>
    /\ logs # <<>>
    /\ Len(logs[Len(logs)].attrs) > 1
    /\ logs[Len(logs)].attrs[Len(logs[Len(logs)].attrs)] = handle[1].attributes[1]

\* The content type the documentation gives a response: the argument of
\* SetContentType when it was called, else the Content-Type of the request,
\* else application/json.
DocumentedContentType ==
    IF contentTypeSet # <<>> THEN contentTypeSet[1]
    ELSE IF response.request # <<>> THEN response.request
    ELSE <<"application/json">>

\* C20: the content type a terminal call writes is the argument of the
\* SetContentType call made before it; without such a call it is the
\* Content-Type of the request, or application/json when the request has none.
C20_ContentTypeWritten ==
    pc = "done" => \A i \in 1..Len(wire) : wire[i].contentType = DocumentedContentType

\* The request holds the pair i with the header prefix.
Prefixed(i) == HasPrefix(userValues[i].key, customHeaderPrefix)

\* Header h carries the pair i: its value, under its key with or without the
\* prefix.
Carries(h, i) ==
    /\ h.value = userValues[i].value
    /\ h.name \in {userValues[i].key, TrimPrefix(userValues[i].key, customHeaderPrefix)}

\* C21, as claimed: every response a terminal call writes has a header for
\* each pair of the request whose key has the prefix "handler-attribute-",
\* and none for a pair whose key has not.
C21_PrefixedPairsAreCopied ==
    \A w \in 1..Len(wire) :
        /\ \A i \in 1..Len(userValues) :
              Prefixed(i) => \E h \in 1..Len(wire[w].headers) : Carries(wire[w].headers[h], i)
        /\ \A h \in 1..Len(wire[w].headers) :
              \E i \in 1..Len(userValues) : Prefixed(i) /\ Carries(wire[w].headers[h], i)

\* C21, amended: on fasthttp every response written has one header for each
\* pair whose key has the prefix, named by the key without the prefix and
\* with the value of the pair, and no other header; on echo no pair is
\* copied.
C21_PrefixedPairsAreCopiedOnFasthttp ==
    \A w \in 1..Len(wire) :
        IF response.runtime = "fasthttp"
        THEN /\ \A i \in 1..Len(userValues) :
                   Prefixed(i)
                   => \E h \in 1..Len(wire[w].headers) :
                         /\ wire[w].headers[h].value = userValues[i].value
                         /\ customHeaderPrefix \o wire[w].headers[h].name = userValues[i].key
             /\ \A h \in 1..Len(wire[w].headers) :
                   \E i \in 1..Len(userValues) :
                      /\ Prefixed(i)
                      /\ wire[w].headers[h].value = userValues[i].value
                      /\ customHeaderPrefix \o wire[w].headers[h].name = userValues[i].key
             /\ Len(wire[w].headers) = Cardinality({i \in 1..Len(userValues) : Prefixed(i)})
        ELSE wire[w].headers = <<>>

\* A response on fasthttp carries X-Trace and not the pair "session".
C21_Witness ==
    /\ pc = "done"
    /\ response.runtime = "fasthttp"
    /\ Len(userValues) = 2
    /\ Len(wire) = 1
    /\ wire[1].headers = <<[name |-> <<"X-Trace">>, value |-> <<"t-1">>]>>

\* ToResponseError was called on the decoded record and returned a body.
BodyReturned == probe.stage = "decoded" /\ probe.body # <<>> /\ ~probe.body[1].panic

\* C22: the body ToResponseError returns has the code, the service name (as
\* source), the message and the destination of the record, and has fields
\* only when the kind of the record is ValidationError and the record has a
\* nested detail.
C22_BodyCopiesTheRecord ==
    BodyReturned
    => LET res == probe.body[1].res
       IN  /\ res.Code = probe.s.Code
           /\ res.Source = probe.s.ServiceName
           /\ res.Message = probe.s.Message
           /\ res.Destination = probe.s.Destination
           /\ res.Fields # <<>>
                 => (probe.s.Kind = <<"ValidationError">> /\ probe.s.SublevelError # JNull)

\* The body of a ValidationError record with a detail has fields, and the
\* service name of the record as source.
C22_Witness ==
    /\ BodyReturned
    /\ probe.s.Kind = <<"ValidationError">>
    /\ probe.s.ServiceName = <<"svc">>
    /\ probe.body[1].res.Source = <<"svc">>
    /\ Len(probe.body[1].res.Fields) = 2

\* The conversion table of the documentation of IsSupportedConversion, source
\* by source.  The sources the table writes as protobuf types (bool, int32,
\* ..., float, double) are their converter types here, and *float and
\* *double are *float32 and *float64.
DocumentedConversions ==
    [ String |-> NumberTypes \cup {"bool", "time.Time", "*time.Time", "*string"},
      Timestamp |-> {"time.Time", "*time.Time"},
      StringValue |-> NumberTypes \cup {"*string", "bool", "time.Time", "*time.Time"},
      Int32Value |-> {"*int32", "int32"}, Int64Value |-> {"*int64", "int64"},
      UInt32Value |-> {"*uint32", "uint32"}, UInt64Value |-> {"*uint64", "uint64"},
      FloatValue |-> {"*float32", "float32"}, DoubleValue |-> {"*float64", "float64"},
      BoolValue |-> {"*bool", "bool"}, Struct |-> {"map[string]interface{}"},
      Bool |-> {"*bool"}, Int32 |-> {"*int32"}, Int64 |-> {"*int64"},
      UInt32 |-> {"*uint32"}, UInt64 |-> {"*uint64"},
      Float32 |-> {"*float32"}, Float64 |-> {"*float64"} ]

\* The table lists the conversion from converter from to converter to.
Documented(from, to) ==
    /\ from.output \in DOMAIN DocumentedConversions
    /\ TrimPrefix(to.original, <<".">>) \in {<<d>> : d \in DocumentedConversions[from.output]}

\* C23: IsSupportedConversion(from, to) returns nil exactly when the
\* conversion table of its documentation lists the pair, for every two valid
\* converter types.
C23_SupportedIsDocumented ==
    probe.stage = "checked"
    => (probe.body[1].err = NoError <=> Documented(probe.body[1].from, probe.body[1].to))

\* The key of a segment: its text before the first colon.
KeyOf(seg) == Split(CleanSegment(seg), <<COLON>>)[1]

\* The text of a key before its first "@", and the whole text after it.
BeforeAt(key) == Split(key, <<"@">>)[1]

AfterAt(key) == SubSeq(key, Len(BeforeAt(key)) + 2, Len(key))

\* C24: the field of a key is the text before its "@" (the whole key when it
\* has none) without surrounding whitespace; its location is "body" when the
\* key has no "@" and otherwise the whole text after the "@" without
\* surrounding whitespace.
C24_FieldAndLocationOfKey ==
    (Parsed /\ Len(probe.body[1]) = Len(Survivors))
    => \A i \in 1..Len(Survivors) :
          LET key == KeyOf(Survivors[i])
          IN  /\ probe.body[1][i].Field = TrimSpace(BeforeAt(key))
              /\ probe.body[1][i].Location =
                    IF Contains(key, <<"@">>) THEN TrimSpace(AfterAt(key)) ELSE <<"body">>

\* The raw message of a segment: its text after the key and the first colon,
\* without surrounding whitespace.
RawMessage(seg) ==
    LET re == CleanSegment(seg)
    IN  TrimSpace(SubSeq(re, Len(KeyOf(seg)) + 2, Len(re)))

\* C25: a message of the parser has no whitespace at either end; for a
\* segment with one colon it is the raw message, without its final period
\* when it ends with one.
C25_MessageIsTrimmed ==
    (Parsed /\ Len(probe.body[1]) = Len(Survivors))
    => \A i \in 1..Len(Survivors) :
          LET message == probe.body[1][i].Message
              raw == RawMessage(Survivors[i])
          IN  /\ message = TrimSpace(message)
              /\ Colons(Survivors[i]) = 1
                    => message = IF raw # <<>> /\ raw[Len(raw)] = "."
                                 THEN SubSeq(raw, 1, Len(raw) - 1)
                                 ELSE raw

\* The status of each kind, as the claim lists them.
StatusOfKind(kind) ==
    CASE kind = <<"ValidationError">> -> 400
      [] kind = <<"NotFoundError">> -> 404
      [] kind = <<"ConditionError">> -> 412
      [] kind = <<"PermissionError">> -> 401
      [] kind = <<"InternalError">> -> 500

\* ForwardError was called with the error Submit returned, no status override
\* in force, and has returned.
SubmittedErrorForwarded ==
    /\ pc = "done"
    /\ call.op = "ForwardError"
    /\ call.err.m # <<>>
    /\ ~OverrideInForce

\* C26: for the error Submit returns on a handle of any constructor,
\* ForwardError without a status override writes one response, with the
\* status of the constructor's kind and with a JSON body whose code and
\* message are those of the record.
C26_SubmittedErrorEndToEnd ==
    SubmittedErrorForwarded
    => /\ Len(wire) = 1
       /\ wire[1].status = StatusOfKind(call.err.m[1].Kind)
       /\ wire[1].enc = "json"
       /\ wire[1].body.k = "error"
       /\ wire[1].body.re.Code = call.err.m[1].Code
       /\ wire[1].body.re.Message = call.err.m[1].Message

\* C27: ToResponseError returns, without a slice out of range, for every
\* record serviceErrorFromString returned, whatever the details of a
\* ValidationError record are: an object, an array, a string, a boolean or a
\* number of any length.
C27_ToResponseErrorReturns ==
    (probe.stage = "decoded" /\ probe.body # <<>>) => ~probe.body[1].panic

\* What ForwardSuccess hands to json.Marshal, when it marshals at all: the
\* substitute of HttpResponse or the payload; in src/unnamed/part_003 on echo
\* nothing is marshalled unless the payload has HttpResponseBytes, whose
\* string is sent as it is.
Forwarded ==
    IF call.op # "ForwardSuccess" THEN <<>>
    ELSE IF response.pkg = "part_003" /\ response.runtime = "echo" THEN <<>>
    ELSE IF call.data.HttpResponse # <<>> THEN <<ValueData(call.data.HttpResponse[1])>>
    ELSE <<ValueData(call.data.value)>>

\* The call has ended and json.Marshal refused what it was to write.
SerializationFailed ==
    /\ pc # "open"
    /\ Forwarded # <<>>
    /\ MarshalFailure(Forwarded[1]) # NoError

====
